---------------------------- MODULE Spec2Model ----------------------------
(***************************************************************************)
(* A model of CGRtools/files/_CGRrw.py: the reader CGRread (atom-map       *)
(* reconciliation of a reaction in _get_reaction, the extended-record      *)
(* decoders, graph assembly in __parse_molecule with its stereo retry      *)
(* loop) and the writer CGRwrite (get_formatted_cgr and its encoders).     *)
(*                                                                         *)
(* Text values of extended records are sequences of one-character strings, *)
(* so that formatting, joining, splitting and int() are computed as the    *)
(* Python code computes them.  Python's None is the string "None".         *)
(***************************************************************************)
EXTENDS Integers, Sequences, FiniteSets, TLC

VARIABLES
    \* ---- CGRread object
    ignore,        \* self.__ignore (tolerance mode)
    remap,         \* self.__remap
    \* ---- CGRread._get_reaction
    reaction,      \* the argument: role -> sequence of molecules, a molecule being
                   \* the sequence of its atoms' 'map' fields
    pc,            \* position in _get_reaction
    maps,          \* the local maps: role -> list of ints, later of (resolved, parsed)
    length,        \* the next value of the itertools.count called length
    spmaps,        \* the local spmaps (None is modelled as the empty set, see CrossCheck)
    lose,          \* the local lose: the holes, largest first
    err,           \* the message of the MapError raised, "" when none
    \* ---- one attribute written by CGRwrite and read back by CGRread
    cpc,           \* "pair", "encoded" or "decoded"
    attr,          \* the attribute: charge, multiplicity, hyb, neighbors or order
    static,        \* its static value in the graph
    dynamic,       \* its dynamic value in the graph (p_...)
    encoded,       \* what the writer emits: the literal field and the record
    decoded,       \* what the reader gives the graph for it: (static, dynamic)
    \* __parse_molecule and get_formatted_cgr
    is_template,   \* CGRread(is_template=...)
    molecule,      \* the parsed record: atoms, bonds and CGR_DAT
    mpc,           \* position: "parse", "stereo", "built", "written", "error", ...
    g,             \* the graph container being built
    merr,          \* the exception __parse_molecule raised, "" when none
    cgr_dat_stereo,  \* the dynamic stereo candidates of the round
    normal_stereo,   \* the static stereo candidates of the round
    any_bonds,     \* the atom pairs of bonds with the any-bond code
    rounds,        \* rounds of the stereo loop run so far
    tried,         \* the candidates of the last round and what add_stereo did
    out            \* what get_formatted_cgr hands to _format_mol

mapVars == <<reaction, pc, maps, length, spmaps, lose, err>>
codecVars == <<cpc, attr, static, dynamic, encoded, decoded>>
molVars == <<is_template, molecule, mpc, g, merr, cgr_dat_stereo, normal_stereo, any_bonds,
             rounds, tried, out>>
otherThanMap == <<codecVars, molVars>>
vars == <<ignore, remap, mapVars, codecVars, molVars>>

---------------------------------------------------------------------------
(* Bounds of the model *)

\* total number of atoms of a generated reaction, over all roles
MaxAtoms == 3
\* largest 'map' field of a generated atom
MaxMap == 3
\* longest list-valued attribute written and read back
MaxListLen == 2
\* most extended records of a generated two-atom molecule
MaxRecords == 2
\* most dynstereo records of a generated three-atom molecule
MaxStereoRecords == 3

---------------------------------------------------------------------------
(* Generic helpers *)

RoleSet == {"reagents", "products", "reactants"}

Max2(a, b) == IF a >= b THEN a ELSE b

\* max(xs, default=0) of a list of naturals
RECURSIVE MaxDefault0(_)
MaxDefault0(xs) ==
    IF xs = <<>> THEN 0 ELSE Max2(Head(xs), MaxDefault0(Tail(xs)))

\* chain.from_iterable of a list of lists
RECURSIVE Flatten(_)
Flatten(ms) ==
    IF ms = <<>> THEN <<>> ELSE Head(ms) \o Flatten(Tail(ms))

\* sorted(S, reverse=True) of a finite set of integers
RECURSIVE SortedDesc(_)
SortedDesc(S) ==
    IF S = {} THEN <<>>
    ELSE LET m == CHOOSE x \in S : \A y \in S : y <= x
         IN <<m>> \o SortedDesc(S \ {m})

Range(s) == {s[i] : i \in DOMAIN s}

---------------------------------------------------------------------------
(* Python values and texts *)

\* A Python value is None, an int or a list of values; a dict is a function
\* from its keys (strings) to values.
None == <<"None">>
I(n) == <<"int", n>>
L(xs) == <<"list", xs>>
IsNone(v) == v[1] = "None"
IsInt(v) == v[1] = "int"
IsList(v) == v[1] = "list"
Items(v) == v[2]
\* bool(v) is False
Falsy(v) == IsNone(v) \/ (IsInt(v) /\ v[2] = 0) \/ (IsList(v) /\ v[2] = <<>>)

EmptyDict == <<>>
\* d.update(e)
Update(d, e) == [k \in DOMAIN d \cup DOMAIN e |-> IF k \in DOMAIN e THEN e[k] ELSE d[k]]
\* d.get(k) with default None
Get(d, k) == IF k \in DOMAIN d THEN d[k] ELSE None

\* A text (a Python str) is the sequence of its characters.
DigitChars == <<"0", "1", "2", "3", "4", "5", "6", "7", "8", "9">>
IsDigit(c) == \E d \in DOMAIN DigitChars : DigitChars[d] = c
DigitVal(c) == (CHOOSE d \in DOMAIN DigitChars : DigitChars[d] = c) - 1

\* str(n) of a natural
RECURSIVE NatText(_)
NatText(n) ==
    IF n < 10 THEN <<DigitChars[n + 1]>> ELSE NatText(n \div 10) \o <<DigitChars[(n % 10) + 1]>>

\* str(n), '%s' % n
IntText(n) == IF n < 0 THEN <<"-">> \o NatText(0 - n) ELSE NatText(n)
\* '%+d' % n
SignedText(n) == IF n < 0 THEN <<"-">> \o NatText(0 - n) ELSE <<"+">> \o NatText(n)
\* '%s' % v of None or an int
StrOf(v) == IF IsNone(v) THEN <<"N", "o", "n", "e">> ELSE IntText(v[2])

RECURSIVE DigitsVal(_)
DigitsVal(t) ==
    IF t = <<>> THEN 0
    ELSE 10 * DigitsVal(SubSeq(t, 1, Len(t) - 1)) + DigitVal(t[Len(t)])

\* int(t) succeeds: an optional sign and at least one digit
Unsigned(t) == IF t # <<>> /\ t[1] \in {"+", "-"} THEN Tail(t) ELSE t
IsIntText(t) == Unsigned(t) # <<>> /\ \A i \in DOMAIN Unsigned(t) : IsDigit(Unsigned(t)[i])
\* int(t)
IntVal(t) ==
    IF t[1] = "-" THEN 0 - DigitsVal(Unsigned(t)) ELSE DigitsVal(Unsigned(t))

\* t.split(sep)
RECURSIVE Split(_, _)
Split(t, sep) ==
    IF \A i \in DOMAIN t : t[i] # sep THEN <<t>>
    ELSE LET k == CHOOSE i \in DOMAIN t : t[i] = sep /\ \A j \in 1 .. (i - 1) : t[j] # sep
         IN <<SubSeq(t, 1, k - 1)>> \o Split(SubSeq(t, k + 1, Len(t)), sep)

\* sep.join(ts)
RECURSIVE Join(_, _)
Join(ts, sep) ==
    IF ts = <<>> THEN <<>>
    ELSE IF Len(ts) = 1 THEN ts[1]
    ELSE ts[1] \o <<sep>> \o Join(Tail(ts), sep)

\* zip(a, b)
Zip(a, b) == [i \in 1 .. (IF Len(a) < Len(b) THEN Len(a) ELSE Len(b)) |-> <<a[i], b[i]>>]

\* the positions of a list whose items are pairwise distinct:
\* len(set(xs)) == len(xs)
Distinct(xs) == \A i, j \in DOMAIN xs : i # j => xs[i] # xs[j]

\* what a decoder or an encoder yields: a value, None (after a warning), or
\* an exception
Raise(e) == [tag |-> "raise", exc |-> e]
Dropped == [tag |-> "none"]
Val(attrs, isList) == [tag |-> "val", attrs |-> attrs, list |-> isList]

\* the first exception among the results rs, if any
FirstRaise(rs) ==
    LET bad == {i \in DOMAIN rs : rs[i].tag = "raise"}
    IN rs[CHOOSE i \in bad : \A j \in bad : i <= j]
AnyRaise(rs) == \E i \in DOMAIN rs : rs[i].tag = "raise"

\* f'p_{name}'
PName(name) == "p_" \o name

---------------------------------------------------------------------------
(* CGRread.__parsedyn, __parselist, __parse_cgr_atom, __cgr_dat *)

\* line 487: __bondlabels
BondLabelKeys == {"0", "1", "2", "3", "4", "9", "n", "s"}
IsBondLabel(t) == Len(t) = 1 /\ t[1] \in BondLabelKeys
BondLabel(t) ==
    IF t[1] \in {"0", "n"} THEN None
    ELSE IF t[1] = "s" THEN I(9) ELSE I(DigitVal(t[1]))

\* x != 'n' and int(x) or None
NumOrNone(t) ==
    IF t = <<"n">> THEN Val(None, FALSE)
    ELSE IF ~IsIntText(t) THEN Raise("ValueError")
    ELSE IF IntVal(t) = 0 THEN Val(None, FALSE) ELSE Val(I(IntVal(t)), FALSE)

\* lines 193-197 for the texts s and p of a token, s # p
DynPair(name, s, p) ==
    IF name = "order"
    THEN IF ~IsBondLabel(s) \/ ~IsBondLabel(p) THEN Raise("KeyError")
         ELSE [tag |-> "pair", s |-> BondLabel(s), p |-> BondLabel(p)]
    ELSE IF NumOrNone(s).tag = "raise" \/ NumOrNone(p).tag = "raise"
         THEN Raise("ValueError")
         ELSE [tag |-> "pair", s |-> NumOrNone(s).attrs, p |-> NumOrNone(p).attrs]

\* lines 190-197 for one token x split at '>': a (before, after) pair,
\* nothing, or an exception
DynToken(name, parts) ==
    IF Len(parts) < 2 THEN Raise("ValueError")       \* s, *_, p = ...
    ELSE IF parts[1] = parts[Len(parts)] THEN [tag |-> "skip"]
    ELSE DynPair(name, parts[1], parts[Len(parts)])

IsPair(r) == r.tag = "pair"

\* lines 199-211: ps the (before, after) pairs of the tokens kept
DynResult(name, ps) ==
    LET tmp0 == [i \in DOMAIN ps |-> ps[i].s]
        tmp1 == [i \in DOMAIN ps |-> ps[i].p]
        tmp2 == [i \in DOMAIN ps |-> <<ps[i].s, ps[i].p>>]
    IN IF Len(ps) = 1
       THEN Val(Update(IF IsNone(tmp0[1]) THEN EmptyDict ELSE (name :> tmp0[1]),
                       IF IsNone(tmp1[1]) THEN EmptyDict ELSE (PName(name) :> tmp1[1])),
                FALSE)
       ELSE IF Len(ps) > 1 /\ Distinct(tmp2)
            THEN Val((name :> L(tmp0)) @@ (PName(name) :> L(tmp1)), TRUE)
       ELSE Dropped

\* a token that raises ends the loop: nothing after it is looked at
DynTokens(name, rs) ==
    IF AnyRaise(rs) THEN FirstRaise(rs) ELSE DynResult(name, SelectSeq(rs, IsPair))

\* lines 187-211
ParseDyn(name, value) ==
    DynTokens(name, [i \in DOMAIN Split(value, ",") |->
                        DynToken(name, Split(Split(value, ",")[i], ">"))])

\* lines 215-218 for one token
ListToken(name, x) ==
    IF name = "order"
    THEN IF ~IsBondLabel(x) THEN Raise("KeyError") ELSE Val(BondLabel(x), FALSE)
    ELSE NumOrNone(x)

\* lines 219-226: tmp the values of the tokens
ListResult(name, tmp) ==
    IF Len(tmp) = 1
    THEN IF ~IsNone(tmp[1])
         THEN Val((name :> tmp[1]) @@ (PName(name) :> tmp[1]), FALSE)
         ELSE Dropped
    ELSE IF Distinct(tmp) /\ \A i \in DOMAIN tmp : ~IsNone(tmp[i])
         THEN Val((name :> L(tmp)) @@ (PName(name) :> L(tmp)), TRUE)
    ELSE Dropped

ListTokens(name, rs) ==
    IF AnyRaise(rs) THEN FirstRaise(rs)
    ELSE ListResult(name, [i \in DOMAIN rs |-> rs[i].attrs])

\* lines 213-226
ParseList(name, value) ==
    ListTokens(name, [i \in DOMAIN Split(value, ",") |-> ListToken(name, Split(value, ",")[i])])

\* diff[1::2] and diff[::2] (Python indices from 0)
OddItems(d) == [i \in 1 .. (Len(d) \div 2) |-> d[2 * i]]
EvenItems(d) == [i \in 1 .. ((Len(d) + 1) \div 2) |-> d[2 * i - 1]]

\* (mutant of CgrAtomResult: a single integer is taken as the dynamic value
\* itself, not as an offset from the base)
CgrAtomResultAbsolute(diff, base, name) ==
    IF Len(diff) > 1 THEN Dropped
    ELSE IF diff[1] # 0
         THEN Val((name :> I(base)) @@ (PName(name) :> I(diff[1])), FALSE)
         ELSE Dropped

\* lines 232-247: diff the ints of the record's value
CgrAtomResult(diff, base, name) ==
    LET tmp == [i \in DOMAIN diff |-> I(base + diff[i])]
        s == <<I(base)>> \o [i \in DOMAIN OddItems(diff) |-> I(base + OddItems(diff)[i])]
        p == [i \in DOMAIN EvenItems(diff) |-> I(base + EvenItems(diff)[i])]
    IN IF Len(diff) > 1
       THEN IF diff[1] = 0
            THEN IF Distinct(tmp)
                 THEN Val((name :> L(tmp)) @@ (PName(name) :> L(tmp)), TRUE)
                 ELSE Dropped
            ELSE IF Len(diff) % 2 = 1
                 THEN IF Distinct(Zip(s, p))
                      THEN Val((name :> L(s)) @@ (PName(name) :> L(p)), TRUE)
                      ELSE Dropped
                 ELSE Dropped
       ELSE IF diff[1] # 0
            THEN Val((name :> I(base)) @@ (PName(name) :> I(base + diff[1])), FALSE)
            ELSE Dropped

\* lines 228-247; value is the list of texts, base an int
ParseCgrAtom(value, base, name) ==
    IF \E i \in DOMAIN value : ~IsIntText(value[i]) THEN Raise("ValueError")
    ELSE CgrAtomResult([i \in DOMAIN value |-> IntVal(value[i])], base, name)

---------------------------------------------------------------------------
(* CGRwrite.__dyn_atom, __get_state and the bond branch of get_formatted_cgr *)

\* a record the writer emits, and no record
Rec(type, value) == [tag |-> "rec", type |-> type, value |-> value]
NoRec == [tag |-> "none"]

\* None -> 0, lines 698-701
ZeroIfNone(v) == IF IsNone(v) THEN 0 ELSE v[2]

\* s[1:] of a list
Rest(xs) == IF xs = <<>> THEN <<>> ELSE Tail(xs)
Differ(xy) == xy[1] # xy[2]

\* lines 692-694: the delta of the first item, then the (static, dynamic)
\* offsets of every later position whose items differ
PairOffsets(s, p, value) ==
    LET zs == SelectSeq(Zip(Rest(s), Rest(p)), Differ)
    IN <<SignedText(p[1][2] - value)>> \o
       [i \in DOMAIN zs |->
           SignedText(zs[i][1][2] - value) \o <<",">> \o SignedText(zs[i][2][2] - value)]

\* lines 684-708: the value of the literal atom field (before _charge_map or
\* _radical_map) and the dynatom record
DynAtom(s, p, mark) ==
    IF IsList(s)
    THEN LET value == Items(s)[1]
         IN IF s = p
            THEN [value |-> value,
                  meta |-> IF Len(Items(s)) > 1
                           THEN Rec("dynatom",
                                    <<mark, "0">> \o
                                    Join([i \in DOMAIN Rest(Items(s)) |-> StrOf(Rest(Items(s))[i])], ","))
                           ELSE NoRec]
            ELSE IF Items(s)[1] # Items(p)[1]
                 THEN [value |-> value,
                       meta |-> IF (\E i \in DOMAIN Items(s) : IsNone(Items(s)[i]))
                                   \/ (\E j \in DOMAIN Items(p) : IsNone(Items(p)[j]))
                                THEN Raise("TypeError")
                                ELSE Rec("dynatom",
                                         <<mark>> \o Join(PairOffsets(Items(s), Items(p), value[2]), ","))]
                 ELSE [value |-> value, meta |-> NoRec]
    ELSE IF p # s
         THEN [value |-> I(ZeroIfNone(s)),
               meta |-> Rec("dynatom", <<mark>> \o SignedText(ZeroIfNone(p) - ZeroIfNone(s)))]
         ELSE [value |-> s, meta |-> NoRec]

\* x and str(x) or 'n'; x or 'n' formatted with %s
OrN(x) == IF Falsy(x) THEN <<"n">> ELSE StrOf(x)
PairText(xy) == OrN(xy[1]) \o <<">">> \o OrN(xy[2])

\* lines 665-682.  In the last branch the record's value is the attribute
\* itself (an int); it is given here as the text str() makes of it.
GetState(s, p, t1, t2) ==
    IF IsList(s)
    THEN IF s = p
         THEN LET val == Join([i \in DOMAIN Items(s) |-> OrN(Items(s)[i])], ",")
              IN IF val = <<>> THEN NoRec ELSE Rec(t1, val)
         ELSE LET zs == SelectSeq(Zip(Items(s), Items(p)), Differ)
                  val == Join([i \in DOMAIN zs |-> PairText(zs[i])], ",")
              IN IF val = <<>> THEN NoRec ELSE Rec(t2, val)
    ELSE IF s # p
         THEN Rec(t2, PairText(<<s, p>>))
         ELSE IF Falsy(s) THEN NoRec ELSE Rec(t1, StrOf(s))

\* l.order or 0
OrZero(v) == IF Falsy(v) THEN I(0) ELSE v

\* lines 627-653 for one edge: the literal bond code and the records added
\* to cgr_dat.  stereo is the dynstereo record of lines 614-625 or NoRec,
\* s_dyn whether its marks differ.
BondBranch(order, p_order, is_cgr, stereo, s_dyn) ==
    LET s_bond == OrZero(order)
        p_bond == IF is_cgr THEN OrZero(p_order)
                  ELSE s_bond
        st == IF stereo.tag = "rec" THEN <<stereo>> ELSE <<>>
    IN IF IsList(s_bond)
       THEN IF s_bond = p_bond
            THEN Raise("TypeError")          \* ','.join of a list of ints
            ELSE [tag |-> "val", bond |-> 8,
                  recs |-> <<Rec("dynbond",
                                 Join([i \in DOMAIN Zip(Items(s_bond), Items(p_bond)) |->
                                          StrOf(Zip(Items(s_bond), Items(p_bond))[i][1]) \o <<">">> \o
                                          StrOf(Zip(Items(s_bond), Items(p_bond))[i][2])], ","))>> \o st]
       ELSE IF s_bond # p_bond
            THEN [tag |-> "val", bond |-> 8,
                  recs |-> <<Rec("dynbond", StrOf(s_bond) \o <<">">> \o StrOf(p_bond))>> \o st]
       ELSE IF s_bond = I(9)
            THEN [tag |-> "val", bond |-> 8, recs |-> <<Rec("extrabond", <<"s">>)>> \o st]
       ELSE IF s_dyn
            THEN [tag |-> "val", bond |-> 8,
                  recs |-> <<Rec("extrabond", StrOf(s_bond)), stereo>>]
       ELSE [tag |-> "val", bond |-> s_bond[2], recs |-> <<>>]

---------------------------------------------------------------------------
(* _get_reaction, lines 89-99: the per-molecule scan *)

\* TRUE when the scan of one molecule raises: a nonzero map already in mm
MoleculeRepeats(m) ==
    \E i, j \in DOMAIN m : i < j /\ m[j] # 0 /\ m[i] = m[j]

ScanRaises(rx, ign) ==
    ~ign /\ \E r \in RoleSet : \E k \in DOMAIN rx[r] : MoleculeRepeats(rx[r][k])

ScanMolecules ==
    /\ pc = "scan"
    /\ IF ScanRaises(reaction, ignore)
       THEN /\ pc' = "MapError"
            /\ err' = "mapping in molecules should be unique"
            /\ UNCHANGED maps
       ELSE /\ pc' = "resolve"
            /\ maps' = [r \in RoleSet |-> Flatten(reaction[r])]
            /\ UNCHANGED err
    /\ UNCHANGED <<reaction, length, spmaps, lose, ignore, remap, otherThanMap>>

---------------------------------------------------------------------------
(* _get_reaction, lines 101-119: map unmapped atoms, one role after another *)

\* (mutant of StartLength: the counter starts at the maximum itself)
StartLengthNoPlusOne(mp) ==
    Max2(Max2(MaxDefault0(mp["products"]), MaxDefault0(mp["reagents"])),
         MaxDefault0(mp["reactants"]))

\* lines 101-102: the first value of the counter
StartLength(mp) ==
    Max2(Max2(MaxDefault0(mp["products"]), MaxDefault0(mp["reagents"])),
         MaxDefault0(mp["reactants"])) + 1

\* (mutant of ResolveAtoms: a tolerated repeat keeps its map)
RECURSIVE ResolveAtomsKeepDup(_, _, _, _, _, _)
ResolveAtomsKeepDup(ms, i, mi, used, len, ign) ==
    IF i > Len(ms) THEN [mi |-> mi, length |-> len, raised |-> FALSE]
    ELSE LET m == ms[i]
             k == IF m # 0 THEN m ELSE len
             len1 == IF m # 0 THEN len ELSE len + 1
         IN IF k \in used
            THEN IF ~ign
                 THEN [mi |-> mi, length |-> len1, raised |-> TRUE]
                 ELSE ResolveAtomsKeepDup(ms, i + 1, Append(mi, <<k, k>>), used, len1, ign)
            ELSE ResolveAtomsKeepDup(ms, i + 1, Append(mi, <<k, k>>), used \cup {k}, len1, ign)

\* lines 107-117 for one role: ms the role's maps, from atom i on, mi and used
\* the lists built so far, len the counter.  Yields the role's list of
\* (resolved, parsed), the counter, and whether MapError was raised.
RECURSIVE ResolveAtoms(_, _, _, _, _, _)
ResolveAtoms(ms, i, mi, used, len, ign) ==
    IF i > Len(ms) THEN [mi |-> mi, length |-> len, raised |-> FALSE]
    ELSE LET m == ms[i]
             k == IF m # 0 THEN m ELSE len             \* k = m or next(length)
             len1 == IF m # 0 THEN len ELSE len + 1
         IN IF k \in used
            THEN IF ~ign
                 THEN [mi |-> mi, length |-> len1, raised |-> TRUE]
                 ELSE ResolveAtoms(ms, i + 1, Append(mi, <<len1, k>>), used, len1 + 1, ign)
            ELSE ResolveAtoms(ms, i + 1, Append(mi, <<k, k>>), used \cup {k}, len1, ign)

\* (mutant of ResolveAll: every role starts the counter afresh)
ResolveAllPerRoleCounter(mp, len0, ign) ==
    LET a == ResolveAtoms(mp["reagents"], 1, <<>>, {}, len0, ign)
        b == ResolveAtoms(mp["products"], 1, <<>>, {}, len0, ign)
        c == ResolveAtoms(mp["reactants"], 1, <<>>, {}, len0, ign)
    IN [raised |-> a.raised \/ b.raised \/ c.raised,
        length |-> c.length,
        maps |-> [r \in RoleSet |->
                    IF r = "reagents" THEN a.mi
                    ELSE IF r = "products" THEN b.mi ELSE c.mi]]

\* the for loop of line 106 over the three roles, the counter threaded through
ResolveAll(mp, len0, ign) ==
    LET a == ResolveAtoms(mp["reagents"], 1, <<>>, {}, len0, ign)
        b == ResolveAtoms(mp["products"], 1, <<>>, {}, a.length, ign)
        c == ResolveAtoms(mp["reactants"], 1, <<>>, {}, b.length, ign)
    IN [raised |-> a.raised \/ b.raised \/ c.raised,
        length |-> c.length,
        maps |-> [r \in RoleSet |->
                    IF r = "reagents" THEN a.mi
                    ELSE IF r = "products" THEN b.mi ELSE c.mi]]

ResolveRoles ==
    /\ pc = "resolve"
    /\ LET res == ResolveAll(maps, StartLength(maps), ignore)
       IN IF res.raised
          THEN /\ pc' = "MapError"
               /\ err' = "mapping in reagents or products or reactants should be unique"
               /\ UNCHANGED <<maps, length>>
          ELSE /\ pc' = "cross"
               /\ maps' = res.maps
               /\ length' = res.length
               /\ UNCHANGED err
    /\ UNCHANGED <<reaction, spmaps, lose, ignore, remap, otherThanMap>>

---------------------------------------------------------------------------
(* _get_reaction, lines 121-127: reactants against reagents and products *)

ResolvedOf(ms) == {ms[i][1] : i \in DOMAIN ms}

\* line 122: the resolved maps of reagents and products
SpMaps(mp) == ResolvedOf(mp["reagents"]) \cup ResolvedOf(mp["products"])

\* line 127: every reactant whose resolved map is in d takes the next value
RECURSIVE Reassign(_, _, _, _)
Reassign(ms, i, d, len) ==
    IF i > Len(ms) THEN [mi |-> <<>>, length |-> len]
    ELSE IF ms[i][1] \in d
         THEN LET rest == Reassign(ms, i + 1, d, len + 1)
              IN [mi |-> <<(<<len, ms[i][2]>>)>> \o rest.mi, length |-> rest.length]
         ELSE LET rest == Reassign(ms, i + 1, d, len)
              IN [mi |-> <<ms[i]>> \o rest.mi, length |-> rest.length]

\* (mutant of CrossResult: a collision is repaired even with tolerance off)
CrossResultNeverRaises(mp, len, ign) ==
    LET sp == SpMaps(mp)
        d == ResolvedOf(mp["reactants"]) \cap sp
        re == Reassign(mp["reactants"], 1, d, len)
    IN IF mp["reactants"] = <<>>
       THEN [raised |-> FALSE, maps |-> mp, length |-> len, spmaps |-> {}]
       ELSE [raised |-> FALSE, length |-> re.length, spmaps |-> sp,
             maps |-> [mp EXCEPT !["reactants"] = re.mi]]

\* lines 121-127 as a function of the state: what is raised, and the new
\* maps, counter and spmaps.  spmaps stays None when there are no reactants;
\* its only later use is "spmaps or (the same values)", so None and the empty
\* set are one value here.
CrossResult(mp, len, ign) ==
    LET sp == SpMaps(mp)
        d == ResolvedOf(mp["reactants"]) \cap sp
        re == Reassign(mp["reactants"], 1, d, len)
    IN IF mp["reactants"] = <<>>
       THEN [raised |-> FALSE, maps |-> mp, length |-> len, spmaps |-> {}]
       ELSE IF d # {} /\ ~ign
            THEN [raised |-> TRUE, maps |-> mp, length |-> len, spmaps |-> sp]
            ELSE [raised |-> FALSE, length |-> re.length, spmaps |-> sp,
                  maps |-> [mp EXCEPT !["reactants"] = re.mi]]

CrossCheck ==
    /\ pc = "cross"
    /\ LET res == CrossResult(maps, length, ignore)
       IN /\ maps' = res.maps
          /\ length' = res.length
          /\ spmaps' = res.spmaps
          /\ IF res.raised
             THEN /\ pc' = "MapError"
                  /\ err' = "reactants has map intersection with reagents or products"
             ELSE /\ pc' = "compact"
                  /\ UNCHANGED err
    /\ UNCHANGED <<reaction, lose, ignore, remap, otherThanMap>>

---------------------------------------------------------------------------
(* _get_reaction, lines 131-140: find breaks in map *)

\* (mutant of Lose: the maps of the reactants are taken for holes)
LoseForgetsReactants(mp, sp, n) ==
    SortedDesc(((1 .. (n - 1)) \ (IF sp # {} THEN sp ELSE SpMaps(mp))))

\* lines 132-134; n is the value next(length) returns
Lose(mp, sp, n) ==
    SortedDesc(((1 .. (n - 1)) \ (IF sp # {} THEN sp ELSE SpMaps(mp)))
                   \ ResolvedOf(mp["reactants"]))

\* line 140 for one hole j
ShiftDown(ms, j) ==
    [i \in DOMAIN ms |-> <<IF ms[i][1] < j THEN ms[i][1] ELSE ms[i][1] - 1, ms[i][2]>>]

\* lines 139-140: for j in lose
RECURSIVE ShiftAll(_, _)
ShiftAll(ms, ls) ==
    IF ls = <<>> THEN ms ELSE ShiftAll(ShiftDown(ms, Head(ls)), Tail(ls))

Compact ==
    /\ pc = "compact"
    /\ IF remap
       THEN LET ls == Lose(maps, spmaps, length)
            IN /\ length' = length + 1
               /\ lose' = ls
               /\ maps' = [r \in RoleSet |->
                             IF maps[r] = <<>> THEN maps[r] ELSE ShiftAll(maps[r], ls)]
       ELSE UNCHANGED <<length, lose, maps>>
    /\ pc' = "done"
    /\ UNCHANGED <<reaction, spmaps, err, ignore, remap, otherThanMap>>

---------------------------------------------------------------------------
(* The parts of the state a specification does not use *)

IdleMap ==
    /\ reaction = [r \in RoleSet |-> <<>>]
    /\ pc = "idle"
    /\ maps = [r \in RoleSet |-> <<>>]
    /\ length = 0
    /\ spmaps = {}
    /\ lose = <<>>
    /\ err = ""

IdleCodec ==
    /\ cpc = "idle"
    /\ attr = ""
    /\ static = None
    /\ dynamic = None
    /\ encoded = NoRec
    /\ decoded = NoRec

\* no round of the stereo loop has run
NoneTried == [cs |-> <<>>, oc |-> <<>>, ns |-> <<>>, on |-> <<>>]

IdleMol ==
    /\ is_template = FALSE
    /\ molecule = [atoms |-> <<>>, bonds |-> <<>>, CGR_DAT |-> <<>>]
    /\ mpc = "idle"
    /\ g = [kind |-> "none", node |-> <<>>, edge |-> <<>>, stereo |-> <<>>]
    /\ merr = ""
    /\ cgr_dat_stereo = <<>>
    /\ normal_stereo = <<>>
    /\ any_bonds = {}
    /\ rounds = 0
    /\ tried = NoneTried
    /\ out = NoRec

---------------------------------------------------------------------------
(* The reactions _get_reaction is given *)

\* the molecules of the atoms lo..hi of the flat list f, a new molecule
\* starting after every position of brk
RECURSIVE SplitMols(_, _, _, _)
SplitMols(f, lo, hi, brk) ==
    IF lo > hi THEN <<>>
    ELSE LET ends == {p \in lo .. hi : p = hi \/ p \in brk}
             e == CHOOSE p \in ends : \A q \in ends : p <= q
         IN <<SubSeq(f, lo, e)>> \o SplitMols(f, e + 1, hi, brk)

BuildReaction(f, a, b, brk) ==
    [r \in RoleSet |->
        IF r = "reagents" THEN SplitMols(f, 1, a, brk)
        ELSE IF r = "products" THEN SplitMols(f, a + 1, b, brk)
        ELSE SplitMols(f, b + 1, Len(f), brk)]

\* the reactions of the worked examples
ScenarioReactions ==
    { [reagents |-> << <<1, 2, 0>> >>, products |-> << <<0, 0, 3>> >>, reactants |-> <<>>],
      [reagents |-> << <<1, 2>>, <<0>> >>, products |-> << <<0>>, <<0, 3>> >>,
       reactants |-> <<>>] }

InitMap ==
    /\ ignore \in BOOLEAN
    /\ remap \in BOOLEAN
    /\ \/ \E n \in 0 .. MaxAtoms :
            \E f \in [1 .. n -> 0 .. MaxMap] :
              \E a \in 0 .. n : \E b \in a .. n : \E brk \in SUBSET (1 .. (n - 1)) :
                reaction = BuildReaction(f, a, b, brk)
       \/ reaction \in ScenarioReactions
    /\ pc = "scan"
    /\ maps = [r \in RoleSet |-> <<>>]
    /\ length = 0
    /\ spmaps = {}
    /\ lose = <<>>
    /\ err = ""
    /\ IdleCodec
    /\ IdleMol

NextMap == ScanMolecules \/ ResolveRoles \/ CrossCheck \/ Compact

SpecMap == InitMap /\ [][NextMap]_vars

---------------------------------------------------------------------------
(* Properties of _get_reaction *)

\* the 'map' fields of a role's atoms, in order
Inputs(r) == Flatten(reaction[r])

\* the resolved maps of a role's atoms, in order (defined once maps holds pairs)
Resolved(r) == [i \in DOMAIN maps[r] |-> maps[r][i][1]]
Parsed(r) == [i \in DOMAIN maps[r] |-> maps[r][i][2]]

\* every atom of the reaction as (role, index)
Atoms == UNION {{<<r, i>> : i \in DOMAIN Inputs(r)} : r \in RoleSet}

MaxInput == MaxDefault0(Inputs("reagents") \o Inputs("products") \o Inputs("reactants"))

\* atom i of role r repeats the nonzero map of an earlier atom of its role
RepeatsInRole(r, i) ==
    Inputs(r)[i] # 0 /\ \E j \in 1 .. (i - 1) : Inputs(r)[j] = Inputs(r)[i]

\* the atom takes a value of the counter in the loop of lines 106-119
TakesCounter(r, i) == Inputs(r)[i] = 0 \/ RepeatsInRole(r, i)

\* reactant i keeps its nonzero map in lines 106-119 and that map is also the
\* resolved map of a reagent or product atom
Collides(i) ==
    /\ ~TakesCounter("reactants", i)
    /\ \E r \in {"reagents", "products"} : \E j \in DOMAIN Inputs(r) :
          ~TakesCounter(r, j) /\ Inputs(r)[j] = Inputs("reactants")[i]

HasRepeat == \E a \in Atoms : RepeatsInRole(a[1], a[2])
HasCollision == \E i \in DOMAIN Inputs("reactants") : Collides(i)

\* C1: whenever _get_reaction returns (tolerance and remap on or off), no two
\* atoms of one role share a resolved map, and no reactant resolved map is
\* the resolved map of a reagent or product atom.
C1_UniqueInRole ==
    pc = "done" =>
        /\ \A r \in RoleSet : \A i, j \in DOMAIN maps[r] :
              i # j => Resolved(r)[i] # Resolved(r)[j]
        /\ \A i \in DOMAIN maps["reactants"] :
              \A r \in {"reagents", "products"} : \A j \in DOMAIN maps[r] :
                 Resolved("reactants")[i] # Resolved(r)[j]

\* C1 witness: a tolerant run returned a reaction in which a role repeated a
\* map and a reactant collided with a reagent or product
C1_Witness ==
    pc = "done" /\ ignore /\ HasRepeat /\ HasCollision

\* C2 as claimed: after reconciliation no resolved map appears in more than
\* one of reagents, products and reactants.
C2_GloballyUnique ==
    pc = "done" =>
        \A a, b \in Atoms : a[1] # b[1] => Resolved(a[1])[a[2]] # Resolved(b[1])[b[2]]

\* C2 amended: a resolved map appears in two roles only when the roles are
\* reagents and products and the two atoms carry the same nonzero input map;
\* a value taken from the counter is never shared between roles.
C2_SharedOnlyByMappedPairs ==
    pc = "done" =>
        \A a, b \in Atoms :
            (a[1] # b[1] /\ Resolved(a[1])[a[2]] = Resolved(b[1])[b[2]]) =>
                /\ {a[1], b[1]} = {"reagents", "products"}
                /\ Inputs(a[1])[a[2]] # 0
                /\ Inputs(a[1])[a[2]] = Inputs(b[1])[b[2]]
                /\ ~TakesCounter(a[1], a[2]) /\ ~TakesCounter(b[1], b[2])

\* C2 witness: a returned reaction where a reagent and a product share a
\* resolved map while another atom of these roles took a value of the counter
C2_Witness ==
    /\ pc = "done"
    /\ \E i \in DOMAIN maps["reagents"] : \E j \in DOMAIN maps["products"] :
          Resolved("reagents")[i] = Resolved("products")[j]
    /\ \E a \in Atoms : a[1] # "reactants" /\ TakesCounter(a[1], a[2])

AllResolved == UNION {Range(Resolved(r)) : r \in RoleSet}

\* C3: with remap on, the resolved maps of the returned reaction are exactly
\* 1..n for some n, and the compaction step keeps the order of the resolved
\* maps of any two atoms.
C3_DenseAndOrdered ==
    /\ [](pc = "done" /\ remap => AllResolved = 1 .. Cardinality(AllResolved))
    /\ [][pc = "compact" /\ remap =>
            \A a, b \in Atoms :
               (maps[a[1]][a[2]][1] < maps[b[1]][b[2]][1])
                  <=> (maps'[a[1]][a[2]][1] < maps'[b[1]][b[2]][1])]_vars

\* C3 witness: compaction removed two holes of a reaction with reactants
C3_Witness ==
    pc = "done" /\ remap /\ Len(lose) >= 2 /\ maps["reactants"] # <<>>
        /\ Cardinality(AllResolved) >= 2

\* the number of atoms up to (r, i), in role order then atom order, that take
\* a value of the counter in lines 106-119
RoleIndex(r) == IF r = "reagents" THEN 1 ELSE IF r = "products" THEN 2 ELSE 3
Before(a, b) == RoleIndex(a[1]) < RoleIndex(b[1]) \/ (a[1] = b[1] /\ a[2] <= b[2])
Rank(a) == Cardinality({b \in Atoms : Before(b, a) /\ TakesCounter(b[1], b[2])})

\* C4: without compaction the k-th atom, in role order reagents, products,
\* reactants and atom order within a role, that needs a fresh id gets
\* (maximum input map) + k; reagent maps [1,2,0] and product maps [0,0,3]
\* with no reactants give reagents [1,2,4] and products [5,6,3].
C4_CounterOrder ==
    pc = "done" /\ ~remap =>
        /\ \A a \in Atoms :
              TakesCounter(a[1], a[2]) => Resolved(a[1])[a[2]] = MaxInput + Rank(a)
        /\ (Inputs("reagents") = <<1, 2, 0>> /\ Inputs("products") = <<0, 0, 3>>
               /\ Inputs("reactants") = <<>>)
             => Resolved("reagents") = <<1, 2, 4>> /\ Resolved("products") = <<5, 6, 3>>

\* C4 witness: the worked example has been reconciled without compaction
C4_Witness ==
    /\ pc = "done" /\ ~remap
    /\ Inputs("reagents") = <<1, 2, 0>> /\ Inputs("products") = <<0, 0, 3>>
    /\ Inputs("reactants") = <<>>

\* C5: with tolerance off _get_reaction ends in MapError exactly when a
\* nonzero map is repeated within a role or a reactant resolved map equals a
\* reagent/product resolved map; with tolerance on it never raises MapError,
\* and each such atom has, when lines 106-127 are done, a value of the counter
\* (above every input map, held by no other atom) as resolved map and its
\* input map as parsed map, which it keeps to the end.
C5_MapErrorIffNotTolerated ==
    /\ (~ignore /\ pc \in {"done", "MapError"}) =>
          /\ (pc = "MapError") <=> (HasRepeat \/ HasCollision)
          /\ (err = "reactants has map intersection with reagents or products")
                <=> (~HasRepeat /\ ResolvedOf(maps["reactants"]) \cap SpMaps(maps) # {})
    /\ ignore => pc # "MapError" /\ err = ""
    /\ (ignore /\ pc \in {"compact", "done"}) =>
          \A a \in Atoms :
             (RepeatsInRole(a[1], a[2]) \/ (a[1] = "reactants" /\ Collides(a[2]))) =>
                /\ Parsed(a[1])[a[2]] = Inputs(a[1])[a[2]]
                /\ pc = "compact" =>
                      /\ Resolved(a[1])[a[2]] > MaxInput
                      /\ Resolved(a[1])[a[2]] < length
                      /\ \A b \in Atoms :
                            b # a => Resolved(b[1])[b[2]] # Resolved(a[1])[a[2]]

\* C5 witness: a tolerant run got past lines 106-127 with a repeated map in
\* a role and a colliding reactant
C5_Witness ==
    ignore /\ pc = "compact" /\ HasRepeat /\ HasCollision

---------------------------------------------------------------------------
(* Writing one attribute of a CGR node or edge and reading it back *)

AttrNames == {"charge", "multiplicity", "hyb", "neighbors", "order"}

\* the values an attribute takes in a graph
ScalarValues(a) ==
    IF a = "charge" THEN {I(0 - 1), I(0), I(1)}
    ELSE IF a = "multiplicity" THEN {None, I(2), I(3)}
    ELSE IF a = "order" THEN {None, I(1), I(2), I(9)}
    ELSE {None, I(1), I(2)}
ListItemValues(a) ==
    IF a = "charge" THEN {I(0 - 1), I(0), I(1)}
    ELSE IF a = "multiplicity" THEN {I(2), I(3)}
    ELSE {I(1), I(2)}

\* two scalars, or two lists of one length
AttrPairs(a) ==
    {<<x, y>> : x \in ScalarValues(a), y \in ScalarValues(a)} \cup
    UNION {{<<L(xs), L(ys)>> : xs \in [1 .. n -> ListItemValues(a)],
                               ys \in [1 .. n -> ListItemValues(a)]}
           : n \in 2 .. MaxListLen}

\* the pairs the reader itself gives a graph.  Lists: equal lists have
\* pairwise distinct items (lines 224, 235); differing lists have pairwise
\* distinct (static, dynamic) positions (lines 209, 241) that differ at every
\* position (line 191) or, for charge and multiplicity, at the first
\* (line 237).  Scalars: a charge is an int, a multiplicity that changes is
\* an int on both sides (line 247), a bond has an order on one side at least.
WellFormedPair(a, xy) ==
    /\ IsList(xy[1]) =>
          IF xy[1] = xy[2] THEN Distinct(Items(xy[1]))
          ELSE /\ Distinct(Zip(Items(xy[1]), Items(xy[2])))
               /\ Items(xy[1])[1] # Items(xy[2])[1]
               /\ a \notin {"charge", "multiplicity"} =>
                     \A i \in DOMAIN Items(xy[1]) : Items(xy[1])[i] # Items(xy[2])[i]
    /\ (a = "multiplicity" /\ xy[1] # xy[2]) => ~IsNone(xy[1]) /\ ~IsNone(xy[2])
    /\ a = "order" => ~(IsNone(xy[1]) /\ IsNone(xy[2]))

\* get_formatted_cgr for the attribute: lines 520-528 (charge, radical),
\* 538-545 (extralabels) and 627-653 (bond order, no stereo on the edge)
EncodeAttr(a, st, dy) ==
    IF a = "charge" THEN DynAtom(st, dy, "c")
    ELSE IF a = "multiplicity" THEN DynAtom(st, dy, "r")
    ELSE IF a = "hyb" THEN [value |-> None, meta |-> GetState(st, dy, "atomhyb", "dynatomhyb")]
    ELSE IF a = "neighbors"
         THEN [value |-> None, meta |-> GetState(st, dy, "atomneighbors", "dynatomneighbors")]
    ELSE LET b == BondBranch(st, dy, TRUE, NoRec, FALSE)
         IN IF b.tag = "raise" THEN [value |-> None, meta |-> b]
            ELSE [value |-> I(b.bond), meta |-> IF b.recs = <<>> THEN NoRec ELSE b.recs[1]]

\* the decoder __parse_molecule calls for a record: lines 311-335 (dynatom),
\* 339-352 (extrabond, dynbond), 361-362 with __cgr_dat (the others); base is
\* the charge or radical the dynatom delta is relative to
DecodeRecord(rec, base) ==
    IF rec.type = "dynatom"
    THEN IF rec.value[1] = "c" THEN ParseCgrAtom(Split(Tail(rec.value), ","), base, "charge")
         ELSE ParseCgrAtom(Split(Tail(rec.value), ","), base, "multiplicity")
    ELSE IF rec.type = "extrabond" THEN ParseList("order", rec.value)
    ELSE IF rec.type = "dynbond" THEN ParseDyn("order", rec.value)
    ELSE IF rec.type = "atomhyb" THEN ParseList("hyb", rec.value)
    ELSE IF rec.type = "atomneighbors" THEN ParseList("neighbors", rec.value)
    ELSE IF rec.type = "dynatomhyb" THEN ParseDyn("hyb", rec.value)
    ELSE ParseDyn("neighbors", rec.value)

Pair(st, dy) == [tag |-> "pair", s |-> st, p |-> dy]

\* __parse_molecule for the attribute: the pair the node or edge is given.
\* lit is the literal field the writer emitted (charge, radical or bond
\* code), meta its record.  Lines 396-401: an atom without a decoded value
\* gets the literal as both; lines 433-436: an edge takes the decoded order
\* only under the any-bond code 8.
DecodeAttr(a, lit, meta) ==
    LET base == ZeroIfNone(lit)
        lr == IF a = "multiplicity" /\ Falsy(lit) THEN None ELSE lit
        val == IF meta.tag = "rec" THEN DecodeRecord(meta, base) ELSE Dropped
    IN IF val.tag = "raise" THEN val
       ELSE IF a = "order"
            THEN IF lit = I(8) /\ val.tag = "val"
                 THEN Pair(Get(val.attrs, "order"), Get(val.attrs, "p_order"))
                 ELSE Pair(lit, lit)
       ELSE IF a \in {"charge", "multiplicity"}
            THEN IF val.tag = "val" THEN Pair(val.attrs[a], val.attrs[PName(a)]) ELSE Pair(lr, lr)
       ELSE IF val.tag = "val" THEN Pair(Get(val.attrs, a), Get(val.attrs, PName(a)))
            ELSE Pair(None, None)

InitCodec ==
    /\ ignore = FALSE
    /\ remap = TRUE
    /\ IdleMap
    /\ IdleMol
    /\ cpc = "pair"
    /\ attr \in AttrNames
    /\ \E xy \in AttrPairs(attr) :
          WellFormedPair(attr, xy) /\ static = xy[1] /\ dynamic = xy[2]
    /\ encoded = NoRec
    /\ decoded = NoRec

Encode ==
    /\ cpc = "pair"
    /\ encoded' = EncodeAttr(attr, static, dynamic)
    /\ cpc' = IF encoded'.meta.tag = "raise" THEN "raised" ELSE "encoded"
    /\ UNCHANGED <<attr, static, dynamic, decoded, ignore, remap, mapVars, molVars>>

Decode ==
    /\ cpc = "encoded"
    /\ decoded' = DecodeAttr(attr, encoded.value, encoded.meta)
    /\ cpc' = "decoded"
    /\ UNCHANGED <<attr, static, dynamic, encoded, ignore, remap, mapVars, molVars>>

NextCodec == Encode \/ Decode

SpecCodec == InitCodec /\ [][NextCodec]_vars

\* C6: decoding what the writer emits for a (static, dynamic) pair of a
\* charge, multiplicity, hybridization, neighbors or bond-order attribute,
\* scalar or list-valued, gives back the same pair.
C6_RoundTrip ==
    cpc = "decoded" =>
        decoded.tag = "pair" /\ decoded.s = static /\ decoded.p = dynamic

---------------------------------------------------------------------------
(* CGRread.__parse_molecule, lines 292-366: the scan of the extended records *)

\* line 489: _cgr_keys
cgr_keys ==
    [extrabond |-> 2, dynbond |-> 2, dynatom |-> 1, atomnotlist |-> 1, atomlist |-> 1,
     isotope |-> 1, charge |-> 1, radical |-> 1, atomhyb |-> 1, atomneighbors |-> 1,
     dynatomhyb |-> 1, dynatomneighbors |-> 1, dynstereo |-> 2]

\* (mutant of ArityDiffers: a type missing from the table is let through)
ArityDiffersKnownOnly(k) ==
    k.type \in DOMAIN cgr_keys /\ Len(k.atoms) # cgr_keys[k.type]

\* len(k_atoms) != self._cgr_keys.get(k_type): .get of an unknown type is None
ArityDiffers(k) ==
    k.type \notin DOMAIN cgr_keys \/ Len(k.atoms) # cgr_keys[k.type]

\* line 306
NamesZeroAtom(k) ==
    k.atoms[1] = 0 \/ (Len(k.atoms) = 2 /\ k.atoms[2] = 0)

\* line 27: the symbols of the periodic table, of which these are some
elements_set == {"H", "C", "N", "O"}

\* an element symbol, a list of symbols, and the symbols of a set in the
\* order its iteration gives (not known)
Sym(e) == <<"str", e>>
SymSet(S) == <<"set", S>>

\* line 488: __stereolabels for the text keys
StereoLabelKeys == {<<"0">>, <<"1">>, <<"-", "1">>, <<"+", "1">>, <<"n">>}
StereoLabel(t) ==
    IF t \in {<<"0">>, <<"n">>} THEN None
    ELSE IF t = <<"-", "1">> THEN I(0 - 1) ELSE I(1)
\* line 488: __stereolabels for the stereo field of a bond, 1 or 6
BondStereoLabel(s) == IF s = 6 THEN I(0 - 1) ELSE I(1)

\* lines 250-271
CgrDat(type, value) ==
    IF type = "atomlist"
    THEN IF Range(value) \ elements_set # {} THEN Raise("InvalidAtom")
         ELSE Val("element" :> L(value), TRUE)
    ELSE IF type = "atomnotlist"
    THEN IF Range(value) \ elements_set # {} THEN Raise("InvalidAtom")
         ELSE Val("element" :> SymSet(elements_set \ Range(value)), TRUE)
    ELSE IF type = "atomhyb" THEN ParseList("hyb", value)
    ELSE IF type = "atomneighbors" THEN ParseList("neighbors", value)
    ELSE IF type = "dynatomhyb" THEN ParseDyn("hyb", value)
    ELSE IF type = "dynatomneighbors" THEN ParseDyn("neighbors", value)
    ELSE Dropped

\* lines 296-297: {k['atoms'][0]: int(k['value']) ...} for the records of
\* type t, a later record of an atom replacing an earlier one
RECURSIVE LiteralDat(_, _)
LiteralDat(dat, t) ==
    IF dat = <<>> THEN EmptyDict
    ELSE LET k == dat[Len(dat)]
             before == LiteralDat(SubSeq(dat, 1, Len(dat) - 1), t)
         IN IF k.type = t THEN Update(before, k.atoms[1] :> IntVal(k.value)) ELSE before

\* d[a].update(e) of a defaultdict(dict)
UpdateAt(d, a, e) ==
    Update(d, a :> Update(IF a \in DOMAIN d THEN d[a] ELSE EmptyDict, e))

\* cgr_dat_stereo[k_atoms] = marks: a new key goes last, a known key keeps
\* its place
SetStereo(cs, key, marks) ==
    IF \E i \in DOMAIN cs : cs[i].key = key
    THEN [i \in DOMAIN cs |-> IF cs[i].key = key THEN [key |-> key, marks |-> marks] ELSE cs[i]]
    ELSE Append(cs, [key |-> key, marks |-> marks])

\* what the scan has collected: lines 294 and 299
ScanStart(tpl) ==
    [tag |-> "val", cgr_dat_atom |-> EmptyDict, cgr_dat_bond |-> EmptyDict,
     cgr_dat_stereo |-> <<>>, isotope_dat |-> EmptyDict, is_query |-> tpl]

\* lines 322-327 and 363-366: what the decoder gave for atom a1 is stored
StoreAtom(sc, a1, val) ==
    IF val.tag = "raise" THEN val
    ELSE IF val.tag = "none" THEN sc
    ELSE [sc EXCEPT !.cgr_dat_atom = UpdateAt(@, a1, val.attrs),
                    !.is_query = @ \/ val.list]

\* lines 341-345 and 348-352
StoreBond(sc, a1, a2, val) ==
    IF val.tag = "raise" THEN val
    ELSE IF val.tag = "none" THEN sc
    ELSE [sc EXCEPT !.cgr_dat_bond =
                        Update(@, (<<a1, a2>> :> val.attrs) @@ (<<a2, a1>> :> val.attrs)),
                    !.is_query = @ \/ val.list]

\* charge_dat.get(a1, molecule['atoms'][a1 - 1]['charge']) and radical_dat.get(a1, 0)
GetOr(d, k, default) == IF k \in DOMAIN d THEN d[k] ELSE default

\* lines 311-335; the coordinates of key 'x' are not modelled
ScanDynAtom(mol, sc, a1, key, value) ==
    IF key = "c"
    THEN IF a1 > Len(mol.atoms) THEN Raise("IndexError")
         ELSE StoreAtom(sc, a1,
                        ParseCgrAtom(value,
                                     GetOr(LiteralDat(mol.CGR_DAT, "charge"), a1, mol.atoms[a1].charge),
                                     "charge"))
    ELSE IF key = "r"
    THEN StoreAtom(sc, a1,
                   ParseCgrAtom(value, GetOr(LiteralDat(mol.CGR_DAT, "radical"), a1, 0),
                                "multiplicity"))
    ELSE sc

\* lines 337-338
ScanDynStereo(sc, k_atoms, parts) ==
    IF Len(parts) # 2 THEN Raise("ValueError")
    ELSE IF parts[1] \notin StereoLabelKeys \/ parts[2] \notin StereoLabelKeys
         THEN Raise("KeyError")
    ELSE [sc EXCEPT !.cgr_dat_stereo =
             SetStereo(@, k_atoms, <<StereoLabel(parts[1]), StereoLabel(parts[2])>>)]

\* lines 354-360
ScanIsotope(sc, a1, tmp) ==
    IF \E i \in DOMAIN tmp : ~IsIntText(tmp[i]) THEN Raise("ValueError")
    ELSE IF Len(tmp) > 1
         THEN [sc EXCEPT !.cgr_dat_atom =
                             UpdateAt(@, a1, "isotope" :> L([i \in DOMAIN tmp |-> I(IntVal(tmp[i]))])),
                         !.is_query = TRUE]
    ELSE [sc EXCEPT !.isotope_dat = Update(@, a1 :> I(IntVal(tmp[1])))]

\* lines 302-366 for the record k of the molecule mol, sc being what the
\* records before it gave
ScanRecord(mol, sc, k) ==
    IF ArityDiffers(k) THEN Raise("InvalidData")
    ELSE IF NamesZeroAtom(k) THEN Raise("InvalidData")
    ELSE IF k.type \in {"charge", "radical"} THEN sc
    ELSE IF k.type = "dynatom"
         THEN ScanDynAtom(mol, sc, k.atoms[1], k.value[1], Split(Tail(k.value), ","))
    ELSE IF k.type = "dynstereo" THEN ScanDynStereo(sc, k.atoms, Split(k.value, ">"))
    ELSE IF k.type = "extrabond"
         THEN StoreBond(sc, k.atoms[1], k.atoms[2], ParseList("order", k.value))
    ELSE IF k.type = "dynbond"
         THEN StoreBond(sc, k.atoms[1], k.atoms[2], ParseDyn("order", k.value))
    ELSE IF k.type = "isotope" THEN ScanIsotope(sc, k.atoms[1], Split(k.value, ","))
    ELSE StoreAtom(sc, k.atoms[1], CgrDat(k.type, k.value))

\* lines 301-366: the records in their order, up to the first that raises
RECURSIVE ScanRecords(_, _, _)
ScanRecords(mol, sc, i) ==
    IF sc.tag = "raise" \/ i > Len(mol.CGR_DAT) THEN sc
    ELSE ScanRecords(mol, ScanRecord(mol, sc, mol.CGR_DAT[i]), i + 1)

---------------------------------------------------------------------------
(* CGRread.__parse_molecule, lines 368-445: classification, nodes and edges *)

\* (mutant of Classify: only the query flag and wildcards count)
ClassifyFlagsOnly(mol, sc) ==
    IF sc.is_query \/ \E i \in DOMAIN mol.atoms : mol.atoms[i].element \in {"A", "*"}
    THEN "Query"
    ELSE "Molecule"

\* lines 368-377: the container the graph is built in
Classify(mol, sc) ==
    IF sc.is_query \/ \E i \in DOMAIN mol.atoms : mol.atoms[i].element \in {"A", "*"}
    THEN "Query"
    ELSE IF sc.cgr_dat_atom # EmptyDict \/ sc.cgr_dat_bond # EmptyDict \/ sc.cgr_dat_stereo # <<>>
         THEN "CGR"
    ELSE "Molecule"

IsCgrKind(kind) == kind \in {"CGR", "Query"}

\* common_isotopes[element] + l['isotope'], the table left uninterpreted
Common(element, delta) == <<"common", element, delta>>

\* lines 384-389
NodeElement(l) == IF l.element \in {"D", "T"} THEN "H" ELSE l.element
NodeIsotopeDat(l, k, isotope_dat) ==
    IF l.element = "D" THEN Update(isotope_dat, k :> I(2))
    ELSE IF l.element = "T" THEN Update(isotope_dat, k :> I(3))
    ELSE isotope_dat

\* isotope_dat.get(k) or common_isotopes[element] + l['isotope']
IsotopeOr(isotope_dat, k, element, l) ==
    IF k \in DOMAIN isotope_dat /\ ~Falsy(isotope_dat[k]) THEN isotope_dat[k]
    ELSE Common(element, l.isotope)

\* charge_dat.get(k, l['charge']) and radical_dat.get(k)
LitCharge(mol, k) == I(GetOr(LiteralDat(mol.CGR_DAT, "charge"), k, mol.atoms[k].charge))
LitRadical(mol, k) ==
    IF k \in DOMAIN LiteralDat(mol.CGR_DAT, "radical")
    THEN I(LiteralDat(mol.CGR_DAT, "radical")[k]) ELSE None

\* if key not in atom_dat: atom_dat.update(e)
Default(d, key, e) == IF key \in DOMAIN d THEN d ELSE Update(d, e)

\* lines 410-414
DefaultIsotope(d, k, isotope_dat, element, l) ==
    IF "isotope" \in DOMAIN d THEN d
    ELSE IF k \in DOMAIN isotope_dat THEN Update(d, "isotope" :> isotope_dat[k])
    ELSE IF l.isotope # 0 THEN Update(d, "isotope" :> Common(element, l.isotope))
    ELSE d

\* lines 393-416: the attributes of an atom the records gave atom_dat
DatNodeAttrs(atom_dat, k, l, element, isotope_dat, lc, lr) ==
    DefaultIsotope(
        Default(Default(Default(atom_dat, "element", "element" :> Sym(element)),
                        "charge", ("charge" :> lc) @@ ("p_charge" :> lc)),
                "multiplicity", ("multiplicity" :> lr) @@ ("p_multiplicity" :> lr)),
        k, isotope_dat, element, l)

\* lines 418-428: the attributes of the other atoms
PlainNodeAttrs(is_cgr, k, l, element, isotope_dat, lc, lr) ==
    IF is_cgr
    THEN ("element" :> Sym(element)) @@
         ("isotope" :> IsotopeOr(isotope_dat, k, element, l)) @@
         ("charge" :> lc) @@ ("p_charge" :> lc) @@
         ("multiplicity" :> lr) @@ ("p_multiplicity" :> lr)
    ELSE ("element" :> Sym(element)) @@
         ("isotope" :> IsotopeOr(isotope_dat, k, element, l)) @@
         ("charge" :> lc) @@ ("multiplicity" :> lr)

\* lines 381-428: the attributes atom k is added with (coordinates, mark and
\* color are not modelled); mapping is the pair (atom_map, parsed_map)
NodeAttrs(mol, sc, kind, k, mapping) ==
    Update("mapping" :> I(mapping[2]),
           IF IsCgrKind(kind) /\ k \in DOMAIN sc.cgr_dat_atom
           THEN DatNodeAttrs(sc.cgr_dat_atom[k], k, mol.atoms[k], NodeElement(mol.atoms[k]),
                             NodeIsotopeDat(mol.atoms[k], k, sc.isotope_dat),
                             LitCharge(mol, k), LitRadical(mol, k))
           ELSE PlainNodeAttrs(IsCgrKind(kind), k, mol.atoms[k], NodeElement(mol.atoms[k]),
                               NodeIsotopeDat(mol.atoms[k], k, sc.isotope_dat),
                               LitCharge(mol, k), LitRadical(mol, k)))

\* (mutant of EdgeAttrs: a decoded bond record is never taken)
EdgeAttrsLiteralOnly(sc, kind, b) ==
    IF IsCgrKind(kind)
    THEN ("order" :> I(b[3])) @@ ("p_order" :> I(b[3]))
    ELSE "order" :> I(b[3])

\* (mutant of EdgeAttrs: a decoded bond record is taken whatever the
\* literal code of the bond)
EdgeAttrsAnyCode(sc, kind, b) ==
    IF IsCgrKind(kind)
    THEN IF <<b[1], b[2]>> \in DOMAIN sc.cgr_dat_bond
         THEN sc.cgr_dat_bond[<<b[1], b[2]>>]
         ELSE ("order" :> I(b[3])) @@ ("p_order" :> I(b[3]))
    ELSE "order" :> I(b[3])

\* lines 432-441: the attributes the bond b = (k, l, m, s) is added with
EdgeAttrs(sc, kind, b) ==
    IF IsCgrKind(kind)
    THEN IF b[3] = 8 /\ <<b[1], b[2]>> \in DOMAIN sc.cgr_dat_bond
         THEN sc.cgr_dat_bond[<<b[1], b[2]>>]
         ELSE ("order" :> I(b[3])) @@ ("p_order" :> I(b[3]))
    ELSE "order" :> I(b[3])

\* lines 437-439
AnyBonds(bonds, kind) ==
    IF IsCgrKind(kind)
    THEN UNION {{<<bonds[i][1], bonds[i][2]>>, <<bonds[i][2], bonds[i][1]>>}
                : i \in {j \in DOMAIN bonds : bonds[j][3] = 8}}
    ELSE {}

\* lines 443-445
HasNormalStereo(b) == b[4] \in {1, 6} /\ b[3] \in {1, 4}
NormalStereo(bonds, mapping) ==
    LET bs == SelectSeq(bonds, HasNormalStereo)
    IN [i \in DOMAIN bs |-> <<mapping[bs[i][1]][1], mapping[bs[i][2]][1], BondStereoLabel(bs[i][4])>>]

\* a graph container: its class, the nodes and edges in the order they were
\* added with the attributes they were added with, and the stereo marks
\* add_stereo accepted
Graph(kind, node, edge, stereo) ==
    [kind |-> kind, node |-> node, edge |-> edge, stereo |-> stereo]
NoGraph == Graph("none", <<>>, <<>>, <<>>)

\* lines 381-445: the nodes and edges of a graph of the class kind
GraphOf(kind, mol, sc, mapping) ==
    Graph(kind,
          [k \in DOMAIN mol.atoms |->
              [n |-> mapping[k][1], attrs |-> NodeAttrs(mol, sc, kind, k, mapping[k])]],
          [i \in DOMAIN mol.bonds |->
              [n |-> mapping[mol.bonds[i][1]][1], m |-> mapping[mol.bonds[i][2]][1],
               attrs |-> EdgeAttrs(sc, kind, mol.bonds[i])]],
          <<>>)

\* lines 368-445: the graph before the stereo loop
BuildGraph(mol, sc, mapping) == GraphOf(Classify(mol, sc), mol, sc, mapping)

\* line 168: _get_molecule with remap on
IdentityMapping(mol) == [k \in DOMAIN mol.atoms |-> <<k, k>>]

---------------------------------------------------------------------------
(* CGRwrite.get_formatted_cgr, lines 501-658 (coordinates, colors and meta
   are not modelled) *)

\* a record of cgr_dat or extended with the atoms it names
WithAtoms(rec, atoms) == [atoms |-> atoms, type |-> rec.type, value |-> rec.value]
OptRec(rec, atoms) == IF rec.tag = "rec" THEN <<WithAtoms(rec, atoms)>> ELSE <<>>

\* l.isotope != l.common_isotope, for an isotope the reader gave the node
NotCommon(iso) ==
    IF IsNone(iso) THEN FALSE
    ELSE IF iso[1] = "common" THEN iso[3] # 0
    ELSE TRUE

\* lines 516-588 for node number n: the atom line, its cgr_dat and extended
\* records; the atom's charge is the key into _charge_map
NodeOut(node, n, is_cgr, extralabels) ==
    LET l == node.attrs
        c == IF is_cgr THEN DynAtom(l["charge"], l["p_charge"], "c")
             ELSE [value |-> l["charge"], meta |-> NoRec]
        r == IF is_cgr THEN DynAtom(l["multiplicity"], l["p_multiplicity"], "r")
             ELSE [value |-> l["multiplicity"], meta |-> NoRec]
        hyb == IF ~extralabels THEN NoRec
               ELSE IF is_cgr THEN GetState(Get(l, "hyb"), Get(l, "p_hyb"), "atomhyb", "dynatomhyb")
               ELSE GetState(Get(l, "hyb"), Get(l, "hyb"), "atomhyb", "dynatomhyb")
        nei == IF ~extralabels THEN NoRec
               ELSE IF is_cgr THEN GetState(Get(l, "neighbors"), Get(l, "p_neighbors"),
                                            "atomneighbors", "dynatomneighbors")
               ELSE GetState(Get(l, "neighbors"), Get(l, "neighbors"),
                             "atomneighbors", "dynatomneighbors")
        iso == Get(l, "isotope")
        isoList == IF NotCommon(iso) /\ IsList(iso)
                   THEN <<[atoms |-> <<n>>, type |-> "isotope",
                           value |-> Join([i \in DOMAIN Items(iso) |-> StrOf(Items(iso)[i])], ",")]>>
                   ELSE <<>>
        isoExt == IF NotCommon(iso) /\ ~IsList(iso)
                  THEN <<[atom |-> n, type |-> "isotope", value |-> iso]>> ELSE <<>>
        radExt == IF Falsy(r.value) THEN <<>>
                  ELSE <<[atom |-> n, type |-> "radical", value |-> r.value]>>
        elExt == IF l["element"][1] # "str"
                 THEN <<[atom |-> n, type |-> "atomlist", value |-> l["element"]]>> ELSE <<>>
    IN IF c.meta.tag = "raise" THEN c.meta
       ELSE IF r.meta.tag = "raise" THEN r.meta
       ELSE [tag |-> "val",
             atom |-> [map |-> node.n, charge |-> c.value,
                       element |-> IF l["element"][1] # "str" THEN Sym("L") ELSE l["element"]],
             cgr_dat |-> OptRec(c.meta, <<n>>) \o OptRec(r.meta, <<n>>) \o
                         OptRec(hyb, <<n>>) \o OptRec(nei, <<n>>) \o isoList,
             extended |-> radExt \o isoExt \o elExt]

\* g.get_stereo(i, j): the marks add_stereo accepted for the pair, if any
HasStereo(gr, i, j) == \E x \in DOMAIN gr.stereo : gr.stereo[x].n = i /\ gr.stereo[x].m = j
GetStereo(gr, i, j) ==
    gr.stereo[CHOOSE x \in DOMAIN gr.stereo : gr.stereo[x].n = i /\ gr.stereo[x].m = j]

\* renum[i]: the number of the node with key i
Renum(gr, i) == CHOOSE n \in DOMAIN gr.node : gr.node[n].n = i

\* lines 592-655 for one edge: the bond line and its cgr_dat records, or the
\* exception raised
EdgeOut(gr, e, is_cgr) ==
    LET flip == ~HasStereo(gr, e.n, e.m) /\ HasStereo(gr, e.m, e.n)
        i == IF flip THEN e.m ELSE e.n
        j == IF flip THEN e.n ELSE e.m
        has == HasStereo(gr, i, j)
        s_stereo == IF has THEN GetStereo(gr, i, j).s ELSE None
        p_stereo == IF ~has THEN None
                    ELSE IF is_cgr THEN GetStereo(gr, i, j).p ELSE s_stereo
        re_atoms == <<Renum(gr, i), Renum(gr, j)>>
        marked == ~Falsy(s_stereo) \/ ~Falsy(p_stereo)
        stereo == IF marked THEN Rec("dynstereo", OrN(s_stereo) \o <<">">> \o OrN(p_stereo))
                  ELSE NoRec
        s_dyn == marked /\ s_stereo # p_stereo
        s_mark == IF marked /\ ~s_dyn THEN s_stereo ELSE I(0)
        b == BondBranch(Get(e.attrs, "order"), Get(e.attrs, "p_order"), is_cgr, stereo, s_dyn)
    IN IF b.tag = "raise" THEN b
       ELSE [tag |-> "val",
             bond |-> <<re_atoms[1], re_atoms[2], b.bond, s_mark>>,
             cgr_dat |-> [x \in DOMAIN b.recs |-> WithAtoms(b.recs[x], re_atoms)]]

\* lines 501-658: the atoms, bonds, extended and cgr_dat handed to _format_mol
FormattedCgr(gr, extralabels) ==
    LET is_cgr == IsCgrKind(gr.kind)
        ns == [n \in DOMAIN gr.node |-> NodeOut(gr.node[n], n, is_cgr, extralabels)]
        es == [x \in DOMAIN gr.edge |-> EdgeOut(gr, gr.edge[x], is_cgr)]
    IN IF AnyRaise(ns) THEN FirstRaise(ns)
       ELSE IF AnyRaise(es) THEN FirstRaise(es)
       ELSE [tag |-> "val",
             atoms |-> [n \in DOMAIN ns |-> ns[n].atom],
             bonds |-> [x \in DOMAIN es |-> es[x].bond],
             extended |-> Flatten([n \in DOMAIN ns |-> ns[n].extended]),
             cgr_dat |-> Flatten([n \in DOMAIN ns |-> ns[n].cgr_dat]) \o
                         Flatten([x \in DOMAIN es |-> es[x].cgr_dat])]

---------------------------------------------------------------------------
(* __parse_molecule called by _get_molecule, and get_formatted_cgr on the
   graph it returns *)

\* lines 368-445 once the records are scanned: sc is what the scan gave
Assemble(sc, mapping) ==
    IF sc.tag = "raise"
    THEN /\ mpc' = "error"
         /\ merr' = sc.exc
         /\ UNCHANGED <<g, cgr_dat_stereo, normal_stereo, any_bonds>>
    ELSE /\ mpc' = "stereo"
         /\ g' = BuildGraph(molecule, sc, mapping)
         /\ cgr_dat_stereo' = sc.cgr_dat_stereo
         /\ normal_stereo' = NormalStereo(molecule.bonds, mapping)
         /\ any_bonds' = AnyBonds(molecule.bonds, Classify(molecule, sc))
         /\ UNCHANGED merr

\* lines 292-445: everything before the stereo loop
ParseMolecule ==
    /\ mpc = "parse"
    /\ Assemble(ScanRecords(molecule, ScanStart(is_template), 1), IdentityMapping(molecule))
    /\ UNCHANGED <<is_template, molecule, rounds, tried, out, ignore, remap, mapVars, codecVars>>

\* what one call of add_stereo does
Outcomes == {"ok", "InvalidStereo", "InvalidAtom"}

\* the items of s at the positions S, in their order
RECURSIVE Pick(_, _)
Pick(s, S) ==
    IF s = <<>> THEN <<>>
    ELSE Pick(SubSeq(s, 1, Len(s) - 1), S) \o (IF Len(s) \in S THEN <<s[Len(s)]>> ELSE <<>>)

\* (mutant of Retryable: every failure is kept for the next round)
RetryableAnyFailure(o) == o \in {"InvalidStereo", "InvalidAtom"}

\* lines 453-454, 468-469: the failure that is kept for the next round
Retryable(o) == o = "InvalidStereo"

\* line 450: the dynamic candidates add_stereo is called for
Attempted(cs, ab) == {i \in DOMAIN cs : cs[i].key \in ab}

\* (mutant of RunsAgain: the loop goes on while anything failed)
RunsAgainWhileFailed(cs, failed_cs, ns, failed_ns) ==
    failed_cs # <<>> \/ failed_ns # <<>>

\* lines 477-478
RunsAgain(cs, failed_cs, ns, failed_ns) ==
    \/ failed_cs # <<>> /\ Len(cs) > Len(failed_cs)
    \/ failed_ns # <<>> /\ Len(ns) > Len(failed_ns)

\* the marks add_stereo accepted in a round, as the graph keeps them
Accepted(cs, okc, ns, okn, mapping) ==
    LET a == Pick(cs, okc)
        b == Pick(ns, okn)
    IN [i \in DOMAIN a |-> [n |-> mapping[a[i].key[1]][1], m |-> mapping[a[i].key[2]][1],
                            s |-> a[i].marks[1], p |-> a[i].marks[2]]] \o
       [i \in DOMAIN b |-> [n |-> b[i][1], m |-> b[i][2], s |-> b[i][3], p |-> b[i][3]]]

\* lines 447-482: one round of the loop, oc and on being what add_stereo
\* does for the dynamic and the static candidates of the round
StereoRound ==
    /\ mpc = "stereo"
    /\ \E oc \in [Attempted(cgr_dat_stereo, any_bonds) -> Outcomes],
          on \in [DOMAIN normal_stereo -> Outcomes] :
          /\ tried' = [cs |-> cgr_dat_stereo,
                       oc |-> [i \in DOMAIN cgr_dat_stereo |->
                                  IF i \in DOMAIN oc THEN oc[i] ELSE "skipped"],
                       ns |-> normal_stereo,
                       on |-> on]
          /\ LET failed_cgr_dat_stereo ==
                     Pick(cgr_dat_stereo, {i \in DOMAIN oc : Retryable(oc[i])})
                 failed_normal_stereo ==
                     Pick(normal_stereo, {i \in DOMAIN on : Retryable(on[i])})
                 raised == ~ignore /\ (\/ \E i \in DOMAIN oc : oc[i] = "InvalidAtom"
                                       \/ \E j \in DOMAIN on : on[j] = "InvalidAtom")
             IN IF raised
                THEN /\ mpc' = "error"
                     /\ merr' = "InvalidAtom"
                     /\ g' = NoGraph
                     /\ UNCHANGED <<cgr_dat_stereo, normal_stereo>>
                ELSE /\ g' = [g EXCEPT !.stereo =
                                 @ \o Accepted(cgr_dat_stereo, {i \in DOMAIN oc : oc[i] = "ok"},
                                               normal_stereo, {i \in DOMAIN on : on[i] = "ok"},
                                               IdentityMapping(molecule))]
                     /\ IF RunsAgain(cgr_dat_stereo, failed_cgr_dat_stereo,
                                     normal_stereo, failed_normal_stereo)
                        THEN /\ cgr_dat_stereo' = failed_cgr_dat_stereo
                             /\ normal_stereo' = failed_normal_stereo
                             /\ mpc' = "stereo"
                        ELSE /\ mpc' = "built"
                             /\ UNCHANGED <<cgr_dat_stereo, normal_stereo>>
                     /\ UNCHANGED merr
    /\ rounds' = rounds + 1
    /\ UNCHANGED <<is_template, molecule, any_bonds, out, ignore, remap, mapVars, codecVars>>

\* get_formatted_cgr on the graph read, with extralabels on or off
Serialize ==
    /\ mpc = "built"
    /\ \E extralabels \in BOOLEAN : out' = FormattedCgr(g, extralabels)
    /\ mpc' = IF out'.tag = "raise" THEN "write_error" ELSE "written"
    /\ UNCHANGED <<is_template, molecule, g, merr, cgr_dat_stereo, normal_stereo, any_bonds,
                   rounds, tried, ignore, remap, mapVars, codecVars>>

---------------------------------------------------------------------------
(* The molecules __parse_molecule is given *)

Atom(e) == [element |-> e, charge |-> 0, isotope |-> 0]
Dat(atoms, type, value) == [atoms |-> atoms, type |-> type, value |-> value]

\* extended records of two-atom molecules: well-formed ones of every kind the
\* scan tells apart, ones whose value the decoders reject, and malformed ones
RecordUniverse ==
    { Dat(<<1, 2>>, "dynbond", <<"1", ">", "2">>),
      Dat(<<1, 2>>, "dynbond", <<"1", ">", "1">>),
      Dat(<<1, 2>>, "dynbond", <<"1", ">", "2", ",", "2", ">", "1">>),
      Dat(<<1, 2>>, "dynbond", <<"1">>),
      Dat(<<1, 2>>, "extrabond", <<"2">>),
      Dat(<<1, 2>>, "extrabond", <<"1", ",", "2">>),
      Dat(<<1, 2>>, "extrabond", <<"1", ",", "1">>),
      Dat(<<1>>, "dynatom", <<"c", "+", "1">>),
      Dat(<<1>>, "dynatom", <<"c", "0">>),
      Dat(<<1>>, "dynatom", <<"c", "0", ",", "1">>),
      Dat(<<1, 2>>, "dynstereo", <<"1", ">", "-", "1">>),
      Dat(<<2, 1>>, "dynstereo", <<"1", ">", "n">>),
      Dat(<<2>>, "atomhyb", <<"2">>),
      Dat(<<1>>, "dynatomhyb", <<"1", ">", "2">>),
      Dat(<<1>>, "isotope", <<"1", "3">>),
      Dat(<<2>>, "charge", <<"1">>),
      Dat(<<1>>, "atomlist", <<"C", "N">>),
      Dat(<<1>>, "atomlist", <<"C", "Xx">>),
      Dat(<<2>>, "atomnotlist", <<"Xx">>),
      Dat(<<1>>, "dynbond", <<"1", ">", "2">>),
      Dat(<<1, 2>>, "dynatom", <<"c", "+", "1">>),
      Dat(<<1>>, "bond", <<"1">>),
      Dat(<<0>>, "dynatom", <<"c", "+", "1">>),
      Dat(<<1, 0>>, "dynbond", <<"1", ">", "2">>) }

\* the bond block of a two-atom molecule: (atom, atom, order code, stereo)
BondUniverse ==
    { <<>>, << <<1, 2, 1, 0>> >>, << <<1, 2, 1, 1>> >>, << <<1, 2, 8, 0>> >> }

SeqsUpTo(S, n) == UNION {[1 .. k -> S] : k \in 0 .. n}

BeforeParse ==
    /\ remap = TRUE
    /\ IdleMap
    /\ IdleCodec
    /\ mpc = "parse"
    /\ g = NoGraph
    /\ merr = ""
    /\ cgr_dat_stereo = <<>>
    /\ normal_stereo = <<>>
    /\ any_bonds = {}
    /\ rounds = 0
    /\ tried = NoneTried
    /\ out = NoRec

InitMol ==
    /\ ignore \in BOOLEAN
    /\ is_template \in BOOLEAN
    /\ \E e \in {"C", "A"} : \E bs \in BondUniverse : \E dat \in SeqsUpTo(RecordUniverse, MaxRecords) :
          molecule = [atoms |-> <<Atom(e), Atom("C")>>, bonds |-> bs, CGR_DAT |-> dat]
    /\ BeforeParse

NextMol == ParseMolecule \/ StereoRound \/ Serialize

SpecMol == InitMol /\ [][NextMol]_vars

---------------------------------------------------------------------------
(* The stereo loop on molecules of three atoms with stereo candidates *)

\* order code and stereo field of a bond: any bond, wedged single bonds, a
\* plain single bond
BondKinds == {<<8, 0>>, <<1, 1>>, <<1, 6>>, <<1, 0>>}

StereoRecordUniverse ==
    { Dat(key, "dynstereo", <<"1", ">", "-", "1">>)
      : key \in {<<1, 2>>, <<2, 1>>, <<2, 3>>, <<1, 3>>} }

InitStereo ==
    /\ ignore \in BOOLEAN
    /\ is_template = FALSE
    /\ \E b1 \in BondKinds : \E b2 \in BondKinds :
       \E dat \in SeqsUpTo(StereoRecordUniverse, MaxStereoRecords) :
          molecule = [atoms |-> <<Atom("C"), Atom("C"), Atom("C")>>,
                      bonds |-> << <<1, 2, b1[1], b1[2]>>, <<2, 3, b2[1], b2[2]>> >>,
                      CGR_DAT |-> dat]
    /\ BeforeParse

SpecStereo == InitStereo /\ [][NextMol]_vars

\* the loop is run to its end
FairSpecStereo == SpecStereo /\ WF_vars(StereoRound)

---------------------------------------------------------------------------
(* Properties of __parse_molecule and get_formatted_cgr *)

Parsed2 == mpc \in {"stereo", "built", "written", "write_error"}

TheDynBond == Dat(<<1, 2>>, "dynbond", <<"1", ">", "2">>)

\* two ordinary atoms, a bond with the any-bond code, one dynbond "1>2"
DynBondScenario ==
    /\ ~is_template
    /\ \A i \in DOMAIN molecule.atoms : molecule.atoms[i].element = "C"
    /\ molecule.bonds = << <<1, 2, 8, 0>> >>
    /\ molecule.CGR_DAT = <<TheDynBond>>

\* C7: a two-atom molecule whose bond has the any-bond code and a dynbond
\* record "1>2" is read without error as a CGR graph whose edge has order 1
\* and p_order 2, and writing that graph gives the bond code 8 and the one
\* record dynbond "1>2" on the pair.
C7_DynBondScenario ==
    DynBondScenario =>
        /\ mpc \notin {"error", "write_error"}
        /\ Parsed2 =>
              /\ g.kind = "CGR"
              /\ Len(g.edge) = 1
              /\ g.edge[1].attrs = (("order" :> I(1)) @@ ("p_order" :> I(2)))
        /\ mpc = "written" =>
              /\ out.bonds = << <<1, 2, 8, I(0)>> >>
              /\ out.cgr_dat = <<TheDynBond>>

C7_Witness ==
    DynBondScenario /\ mpc = "written" /\ g.edge[1].attrs["p_order"] = I(2)

\* the molecule without its record i
WithoutRecord(mol, i) ==
    [mol EXCEPT !.CGR_DAT = SubSeq(@, 1, i - 1) \o SubSeq(@, i + 1, Len(@))]

KindOf(mol, sc) == IF sc.tag = "raise" THEN "none" ELSE Classify(mol, sc)
\* the class __parse_molecule builds mol in, "none" when it raises
ParseKind(mol, tpl) == KindOf(mol, ScanRecords(mol, ScanStart(tpl), 1))

DeltaNames == {"charge", "multiplicity", "hyb", "neighbors", "order"}
HasDelta(d) == \E a \in DeltaNames : Get(d, a) # Get(d, PName(a))
GivesDelta(r) ==
    /\ r.tag = "val"
    /\ \/ \E a \in DOMAIN r.cgr_dat_atom : HasDelta(r.cgr_dat_atom[a])
       \/ \E b \in DOMAIN r.cgr_dat_bond : HasDelta(r.cgr_dat_bond[b])
       \/ \E x \in DOMAIN r.cgr_dat_stereo :
             r.cgr_dat_stereo[x].marks[1] # r.cgr_dat_stereo[x].marks[2]
GivesList(r) == r.tag = "val" /\ r.is_query

\* the record k of mol decodes to a static # dynamic pair, to a list-valued
\* attribute
DecodesDelta(mol, k) == GivesDelta(ScanRecord(mol, ScanStart(FALSE), k))
DecodesList(mol, k) == GivesList(ScanRecord(mol, ScanStart(FALSE), k))

\* record i is one that decodes to a delta or a list, added to a molecule
\* that is built plain without it
AddedToPlain(i) ==
    /\ ParseKind(WithoutRecord(molecule, i), is_template) = "Molecule"
    /\ DecodesDelta(molecule, molecule.CGR_DAT[i]) \/ DecodesList(molecule, molecule.CGR_DAT[i])

\* C8 as stated: such a record added to a plain molecule gives a CGR graph.
C8_DeltaGivesCGR ==
    Parsed2 => \A i \in DOMAIN molecule.CGR_DAT : AddedToPlain(i) => g.kind = "CGR"

\* C8: a record that decodes to a static # dynamic pair or to a list-valued
\* attribute, added to a molecule that is built plain without it, makes the
\* graph a query graph when the record is list-valued and a CGR graph
\* otherwise; and no record added to a molecule built as a CGR or query
\* graph gets a plain graph built.
C8_DeltaGivesCgrOrQuery ==
    Parsed2 =>
        \A i \in DOMAIN molecule.CGR_DAT :
            /\ AddedToPlain(i) =>
                  g.kind = IF DecodesList(molecule, molecule.CGR_DAT[i]) THEN "Query" ELSE "CGR"
            /\ ParseKind(WithoutRecord(molecule, i), is_template) \in {"CGR", "Query"} =>
                  g.kind # "Molecule"

C8_Witness ==
    /\ mpc = "stereo"
    /\ g.kind = "CGR"
    /\ Len(molecule.CGR_DAT) = 2
    /\ AddedToPlain(2)

\* the malformed records of the claim: the arity of the type is 2 for
\* extrabond, dynbond and dynstereo and 1 for every other type
KnownTypes ==
    {"extrabond", "dynbond", "dynstereo", "dynatom", "atomnotlist", "atomlist", "isotope",
     "charge", "radical", "atomhyb", "atomneighbors", "dynatomhyb", "dynatomneighbors"}
WrongArity(k) ==
    Len(k.atoms) # (IF k.type \in {"extrabond", "dynbond", "dynstereo"} THEN 2 ELSE 1)
NamesZero(k) == \E i \in DOMAIN k.atoms : k.atoms[i] = 0
BadSymbol(k) ==
    k.type \in {"atomlist", "atomnotlist"} /\ \E i \in DOMAIN k.value : k.value[i] = "Xx"
Malformed(k) == k.type \notin KnownTypes \/ WrongArity(k) \/ NamesZero(k) \/ BadSymbol(k)
FirstToRaise(i) ==
    ScanRecords([molecule EXCEPT !.CGR_DAT = SubSeq(@, 1, i - 1)], ScanStart(is_template), 1).tag
        = "val"

\* C10: once a molecule with a malformed record is parsed, tolerance on or
\* off, the read has raised and there is no graph; the error is InvalidData
\* (arity, unknown type, atom 0) or InvalidAtom (symbol) when no record
\* before the malformed one raised.
C10_MalformedAborts ==
    mpc # "parse" =>
        \A i \in DOMAIN molecule.CGR_DAT :
            Malformed(molecule.CGR_DAT[i]) =>
                /\ mpc = "error"
                /\ g = NoGraph
                /\ out = NoRec
                /\ FirstToRaise(i) =>
                      merr = IF molecule.CGR_DAT[i].type \notin KnownTypes
                                \/ WrongArity(molecule.CGR_DAT[i]) \/ NamesZero(molecule.CGR_DAT[i])
                             THEN "InvalidData" ELSE "InvalidAtom"

C10_Witness ==
    /\ ignore
    /\ mpc = "error"
    /\ merr = "InvalidAtom"
    /\ Len(molecule.CGR_DAT) = 2
    /\ BadSymbol(molecule.CGR_DAT[2])

\* the entries of cgr_dat_stereo and normal_stereo the loop is entered with
EntryCandidates(sc) ==
    IF sc.tag = "raise" THEN 0
    ELSE Len(sc.cgr_dat_stereo) + Len(NormalStereo(molecule.bonds, IdentityMapping(molecule)))
Candidates == EntryCandidates(ScanRecords(molecule, ScanStart(is_template), 1))
InRound == Len(cgr_dat_stereo) + Len(normal_stereo)

\* C9 as stated: the rounds run are at most the candidates.
C9_RoundsAtMostCandidates == rounds <= Candidates

\* C9: the stereo loop ends, whatever add_stereo does; it runs one round
\* when entered without candidates and otherwise at most as many rounds as
\* cgr_dat_stereo and normal_stereo have entries at its entry, a repeated
\* round starting with fewer entries in total than the round before.
C9_LoopEndsWithinCandidates ==
    /\ [](rounds <= Max2(1, Candidates))
    /\ [][(mpc = "stereo" /\ mpc' = "stereo") =>
             Len(cgr_dat_stereo') + Len(normal_stereo') < InRound]_vars
    /\ (mpc = "stereo") ~> (mpc \in {"built", "error"})

C9_Witness ==
    mpc = "built" /\ rounds = 3 /\ Candidates = 3

---------------------------------------------------------------------------
(* Decode failures of single records *)

ValueTypes ==
    {"extrabond", "dynbond", "dynatom", "atomhyb", "atomneighbors", "dynatomhyb",
     "dynatomneighbors"}

\* the value of the well-formed record k does not decode: its decoder gives
\* nothing or raises
ValueDropped(k) ==
    /\ ~Malformed(k)
    /\ k.type \in ValueTypes
    /\ ScanRecord(molecule, ScanStart(is_template), k) = ScanStart(is_template)
ValueRaises(k) ==
    /\ ~Malformed(k)
    /\ k.type \in ValueTypes
    /\ ScanRecord(molecule, ScanStart(is_template), k).tag = "raise"
DecodeFails(k) == ValueDropped(k) \/ ValueRaises(k)

\* the graph __parse_molecule builds before the stereo loop
GraphBefore(mol) ==
    BuildGraph(mol, ScanRecords(mol, ScanStart(is_template), 1), IdentityMapping(mol))

\* the read of the molecule is as the read of the molecule without record i
AsWithout(i) ==
    /\ ~(mpc = "error" /\ rounds = 0)
    /\ (mpc = "stereo" /\ rounds = 0) => g = GraphBefore(WithoutRecord(molecule, i))

\* C11: a record whose value fails to decode, in a molecule that is read
\* without it, does not abort the read, and the graph built (class, nodes,
\* edges) is the graph built without that record.
C11_DecodeFailureIsolated ==
    mpc # "parse" =>
        \A i \in DOMAIN molecule.CGR_DAT :
            (/\ DecodeFails(molecule.CGR_DAT[i])
             /\ ParseKind(WithoutRecord(molecule, i), is_template) # "none") => AsWithout(i)

\* the same for the records whose decoder gives nothing
C11_DroppedIsolated ==
    mpc # "parse" =>
        \A i \in DOMAIN molecule.CGR_DAT :
            (/\ ValueDropped(molecule.CGR_DAT[i])
             /\ ParseKind(WithoutRecord(molecule, i), is_template) # "none") => AsWithout(i)

---------------------------------------------------------------------------
(* The single-integer dynatom records: __parse_cgr_atom on 'c<d>' and 'r<d>' *)

\* largest base charge and largest delta of a generated record
MaxBase == 2
MaxDelta == 2

\* the base the record is relative to: the literal charge, the multiplicity
\* of a radical record or no radical record
Bases(a) ==
    IF a = "charge" THEN {I(b) : b \in (0 - MaxBase) .. MaxBase}
    ELSE {None} \cup {I(b) : b \in 1 .. (MaxBase + 1)}

\* the delta written with or without the sign of '%+d'
DeltaTexts(d) == {IntText(d), SignedText(d)}

InitDelta ==
    /\ ignore = FALSE
    /\ remap = TRUE
    /\ IdleMap
    /\ IdleMol
    /\ cpc = "encoded"
    /\ attr \in {"charge", "multiplicity"}
    /\ static \in Bases(attr)
    /\ \E d \in (0 - MaxDelta) .. MaxDelta : \E t \in DeltaTexts(d) :
          /\ dynamic = I(ZeroIfNone(static) + d)
          /\ encoded = [value |-> static,
                        meta |-> Rec("dynatom", <<IF attr = "charge" THEN "c" ELSE "r">> \o t)]
    /\ decoded = NoRec

SpecDelta == InitDelta /\ [][Decode]_vars

\* the base and the delta of the record read
DeltaBase == ZeroIfNone(static)
DeltaRead == dynamic[2] - DeltaBase
DeltaDecoded == DecodeRecord(encoded.meta, DeltaBase)
DeltaPair == (attr :> I(DeltaBase)) @@ (PName(attr) :> dynamic)

\* C12 as stated: every single integer d decodes to the scalar pair
\* {field: b, p_field: b + d}.
C12_SingleDeltaAlwaysPair ==
    cpc = "decoded" => DeltaDecoded = Val(DeltaPair, FALSE)

\* C12: a dynatom c/r record of one signed integer d on the base b decodes,
\* for d # 0, to the scalar pair {field: b, p_field: b + d}, not list-valued,
\* which the node is given; for d = 0 the decoder gives nothing, the record
\* is dropped and the node keeps equal static and dynamic values.
C12_SingleDelta ==
    cpc = "decoded" =>
        IF DeltaRead # 0
        THEN /\ DeltaDecoded = Val(DeltaPair, FALSE)
             /\ decoded = Pair(I(DeltaBase), dynamic)
        ELSE /\ DeltaDecoded = Dropped
             /\ decoded.tag = "pair"
             /\ decoded.s = decoded.p

C12_Witness ==
    /\ cpc = "decoded"
    /\ attr = "charge"
    /\ static = I(0)
    /\ encoded.meta.value = <<"c", "-", "1">>
    /\ decoded = Pair(I(0), I(0 - 1))

---------------------------------------------------------------------------
(* The stereo loop: what a round does with the outcomes of add_stereo *)

\* the dynamic and the static candidates of the last round add_stereo
\* answered with the outcome o
DynWith(o) == {i \in DOMAIN tried.oc : tried.oc[i] = o}
NormalWith(o) == {j \in DOMAIN tried.on : tried.on[j] = o}
SomeWith(o) == DynWith(o) # {} \/ NormalWith(o) # {}
InSeq(x, s) == \E i \in DOMAIN s : s[i] = x

\* C13: once a round has had add_stereo report a missing atom, the read has
\* aborted with InvalidAtom and no graph when tolerance is off; when
\* tolerance is on the read has not aborted and no candidate that got that
\* answer is among the candidates of a next round.
C13_InvalidAtom ==
    (rounds >= 1 /\ SomeWith("InvalidAtom")) =>
        IF ~ignore
        THEN mpc = "error" /\ merr = "InvalidAtom" /\ g = NoGraph
        ELSE /\ mpc # "error"
             /\ mpc = "stereo" =>
                   /\ \A i \in DynWith("InvalidAtom") : ~InSeq(tried.cs[i], cgr_dat_stereo)
                   /\ \A j \in NormalWith("InvalidAtom") : ~InSeq(tried.ns[j], normal_stereo)

C13_Witness ==
    /\ ignore
    /\ mpc = "stereo"
    /\ rounds = 1
    /\ DynWith("InvalidAtom") # {}
    /\ NormalWith("InvalidAtom") # {}

\* a round has run to its end without raising
RoundDone == rounds >= 1 /\ mpc \in {"stereo", "built"}

\* C14: after a round, another round is run exactly when some candidate of
\* either set succeeded in it and some candidate failed with InvalidStereo,
\* and the candidates of that next round are the InvalidStereo failures of
\* the two sets, in their order.
C14_RetryRule ==
    RoundDone =>
        /\ (mpc = "stereo") <=> (SomeWith("ok") /\ SomeWith("InvalidStereo"))
        /\ mpc = "stereo" =>
              /\ cgr_dat_stereo = Pick(tried.cs, DynWith("InvalidStereo"))
              /\ normal_stereo = Pick(tried.ns, NormalWith("InvalidStereo"))

\* the part of C14 on the candidates of the next round
C14_NextRoundIsFailures ==
    (RoundDone /\ mpc = "stereo") =>
        /\ cgr_dat_stereo = Pick(tried.cs, DynWith("InvalidStereo"))
        /\ normal_stereo = Pick(tried.ns, NormalWith("InvalidStereo"))

---------------------------------------------------------------------------
(* Any-bond gating *)

\* the extrabond and dynbond records of the molecule on the atoms of the
\* bond b, in either direction, whose value decodes
BondDeltas(b) ==
    {i \in DOMAIN molecule.CGR_DAT :
        /\ molecule.CGR_DAT[i].type \in {"extrabond", "dynbond"}
        /\ molecule.CGR_DAT[i].atoms \in {<<b[1], b[2]>>, <<b[2], b[1]>>}
        /\ DecodeRecord(molecule.CGR_DAT[i], 0).tag = "val"}
\* what the last of them decodes to
LastDelta(b) ==
    DecodeRecord(molecule.CGR_DAT[CHOOSE i \in BondDeltas(b) : \A j \in BondDeltas(b) : j <= i],
                 0).attrs
\* the atom pairs of the bonds with the any-bond code
AnyPairs ==
    {p \in (DOMAIN molecule.atoms) \X (DOMAIN molecule.atoms) :
        \E e \in DOMAIN molecule.bonds :
            /\ molecule.bonds[e][3] = 8
            /\ p \in {<<molecule.bonds[e][1], molecule.bonds[e][2]>>,
                      <<molecule.bonds[e][2], molecule.bonds[e][1]>>}}

\* C15: an edge whose bond has a decoded extrabond or dynbond delta is given
\* the decoded attributes when the bond's literal code is 8 and order =
\* p_order = the literal code otherwise; add_stereo is called for a dynstereo
\* entry exactly when its atom pair is a bond with the code 8, and the loop
\* raises only when add_stereo reported a missing atom for an entry it was
\* called for.
C15_AnyBondGating ==
    /\ Parsed2 =>
          \A e \in DOMAIN molecule.bonds :
              BondDeltas(molecule.bonds[e]) # {} =>
                  g.edge[e].attrs =
                      IF molecule.bonds[e][3] = 8 THEN LastDelta(molecule.bonds[e])
                      ELSE ("order" :> I(molecule.bonds[e][3])) @@
                           ("p_order" :> I(molecule.bonds[e][3]))
    /\ rounds >= 1 =>
          /\ \A i \in DOMAIN tried.cs :
                (tried.oc[i] # "skipped") <=> (tried.cs[i].key \in AnyPairs)
          /\ mpc = "error" => SomeWith("InvalidAtom")

C15_Witness ==
    /\ mpc = "built"
    /\ molecule.bonds = << <<1, 2, 1, 0>> >>
    /\ Len(molecule.CGR_DAT) = 2
    /\ BondDeltas(molecule.bonds[1]) # {}
    /\ g.edge[1].attrs = (("order" :> I(1)) @@ ("p_order" :> I(1)))
    /\ DynWith("skipped") # {}

---------------------------------------------------------------------------
(* The bond lines and bond records get_formatted_cgr emits *)

\* the marks the graph holds for the edge e, in either direction
EdgeMarks(e) ==
    {g.stereo[x] : x \in {y \in DOMAIN g.stereo :
                             \/ g.stereo[y].n = e.n /\ g.stereo[y].m = e.m
                             \/ g.stereo[y].n = e.m /\ g.stereo[y].m = e.n}}
StaticOrder(e) == OrZero(Get(e.attrs, "order"))
DynamicOrder(e) ==
    IF IsCgrKind(g.kind) THEN OrZero(Get(e.attrs, "p_order")) ELSE StaticOrder(e)

\* the edge cannot be written as a literal bond code
Forced(e) ==
    \/ IsList(StaticOrder(e))
    \/ StaticOrder(e) # DynamicOrder(e)
    \/ StaticOrder(e) = I(9)
    \/ IsCgrKind(g.kind) /\ \E st \in EdgeMarks(e) : st.s # st.p

\* the records of the given types written for the atoms of the bond line b
RecordsFor(b, types) ==
    {k \in DOMAIN out.cgr_dat :
        /\ out.cgr_dat[k].type \in types
        /\ out.cgr_dat[k].atoms \in {<<b[1], b[2]>>, <<b[2], b[1]>>}}

EdgeWritten(x) ==
    IF Forced(g.edge[x])
    THEN /\ out.bonds[x][3] = 8
         /\ Cardinality(RecordsFor(out.bonds[x], {"extrabond", "dynbond"})) = 1
         /\ Cardinality(RecordsFor(out.bonds[x], {"dynstereo"})) =
                (IF EdgeMarks(g.edge[x]) # {} THEN 1 ELSE 0)
    ELSE /\ out.bonds[x][3] = StaticOrder(g.edge[x])[2]
         /\ RecordsFor(out.bonds[x], {"extrabond", "dynbond", "dynstereo"}) = {}

\* C16: get_formatted_cgr writes every graph, and for every edge whose
\* order is list-valued, whose static and dynamic order differ, whose order
\* is 9 or whose stereo marks differ, the bond code written is 8, one
\* extrabond or dynbond record is written for the pair, and a dynstereo
\* record when the edge has stereo; for every other edge the code is the
\* static order and no such record is written for the pair.
C16_EdgeCodes ==
    mpc \in {"written", "write_error"} =>
        /\ mpc = "written"
        /\ \A x \in DOMAIN g.edge : EdgeWritten(x)

\* the same for the graphs that are written
C16_WrittenEdges ==
    mpc = "written" => \A x \in DOMAIN g.edge : EdgeWritten(x)

===========================================================================
